---- MODULE Spec2Model ----
(***************************************************************************)
(* The versioned resource store of vitas-fhir: FHIRResourceManager         *)
(* (src/src/fhir-resource-manager/resourceManager.ts) over one DynamoDB    *)
(* table with the two secondary indexes GSI1 and GSI2.                     *)
(*                                                                         *)
(* Every store call is a sequence of backend requests separated by awaits; *)
(* each request is one atomic step of the table, and the steps of          *)
(* different callers interleave freely.                                     *)
(*                                                                         *)
(* Representation of the program's strings:                                 *)
(*   - a decimal string ("1", "12") is the sequence of its digits;         *)
(*   - a key built by a template (`RESOURCE#${type}#${id}`) is the tuple   *)
(*     of its parts;                                                       *)
(*   - a reference ("Patient/a") is the sequence of its '/'-separated      *)
(*     segments, <<>> standing for an absent reference;                   *)
(*   - an absent or empty string property is "" (both are falsy);          *)
(*   - a timestamp is the number of the clock second it was taken in       *)
(*     (formatISO prints no fraction of a second).                         *)
(***************************************************************************)
EXTENDS Integers, Sequences, FiniteSets, TLC

VARIABLES
    table,   \* the DynamoDB table: a set of items, at most one per (PK, SK)
    now,     \* the wall clock, in seconds
    pc,      \* per caller: the backend request its call is waiting on, or "idle"
    call,    \* per caller: the arguments of its current (or last) call
    loc,     \* per caller: the locals its call carries across awaits
    ret,     \* per caller: what its last call returned or threw
    ncalls,  \* number of calls started so far
    obs,     \* per caller, history: what its current call has seen
    hist     \* per identity, history: who created it, whether it was deleted,
             \* and the last successful write of its current row

vars == <<table, now, pc, call, loc, ret, ncalls, obs, hist>>

----------------------------------------------------------------------------
(* Bounds of the model *)

NumProcs == 2
MaxCalls == 4
MaxTime == 2

Procs == 1..NumProcs

(* The kinds and ids the callers use, and the ids uuidv4() yields *)
Kinds == {"Patient", "Observation"}
Ids == {"a"}
UUIDs == {"u1"}

----------------------------------------------------------------------------
(* Decimal strings *)

NaN == -1

RECURSIVE String(_)
String(n) == IF n < 10 THEN <<n>> ELSE String(n \div 10) \o <<n % 10>>

RECURSIVE parseInt(_)
parseInt(s) ==
    IF s = <<>> THEN NaN
    ELSE IF Len(s) = 1 THEN s[1]
    ELSE 10 * parseInt(SubSeq(s, 1, Len(s) - 1)) + s[Len(s)]

(* `x || d` on numbers: NaN and 0 are falsy *)
OrElse(x, d) == IF x = NaN \/ x = 0 THEN d ELSE x

----------------------------------------------------------------------------
(* Resources, payloads and items *)

NoMeta == [versionId |-> <<>>, lastUpdated |-> 0]

(* What a caller may send as the body of a create or an update.  isObject *)
(* is FALSE for null or a non-object.                                      *)
Payload(isObj, rt, id, name, subject, del) ==
    [id |-> id, name |-> name, subject |-> subject, isObject |-> isObj,
     resourceType |-> rt, _deleted |-> del, meta |-> NoMeta]

NotAnObject == Payload(FALSE, "", "", "", <<>>, FALSE)

NoResource == Payload(FALSE, "", "", "", <<>>, FALSE)

NoItem ==
    [versionId |-> <<>>, lastUpdated |-> 0, resourceType |-> "", PK |-> <<>>,
     SK |-> <<>>, resourceId |-> "", resource |-> NoResource,
     GSI1PK |-> <<>>, GSI1SK |-> <<>>, GSI2PK |-> <<>>, GSI2SK |-> <<>>,
     deleted |-> FALSE]

----------------------------------------------------------------------------
(* FHIRResourceManager: private helpers *)

validTypes ==
    {"Patient", "Encounter", "Practitioner", "DocumentReference", "Observation",
     "Condition"}

(* Mutant: every type passes *)
validateAnyType(resourceType) == TRUE

validateResourceType(resourceType) == resourceType \in validTypes

getCurrentTimestamp == now

buildPrimaryKey(resourceType, id) ==
    [PK |-> <<"RESOURCE", resourceType, id>>, SK |-> <<"v", <<1>>>>]

(* Mutant: an update skips a version *)
addMetadataSkipping(resource, isUpdate, existingVersionId) ==
    LET versionId == IF isUpdate /\ existingVersionId # <<>>
                     THEN String(parseInt(existingVersionId) + 2)
                     ELSE <<1>>
    IN  [resource EXCEPT !.meta = [versionId |-> versionId,
                                   lastUpdated |-> getCurrentTimestamp]]

addMetadata(resource, isUpdate, existingVersionId) ==
    LET versionId == IF isUpdate /\ existingVersionId # <<>>
                     THEN String(parseInt(existingVersionId) + 1)
                     ELSE <<1>>
    IN  [resource EXCEPT !.meta = [versionId |-> versionId,
                                   lastUpdated |-> getCurrentTimestamp]]

(* Mutant: the payload is spread last, its kind and id win when present *)
SpreadLast(resource, resourceType, id) ==
    [resource EXCEPT !.resourceType = IF @ = "" THEN resourceType ELSE @,
                     !.id = IF @ = "" THEN id ELSE @]

(* { ...resource, resourceType, id }: the payload with the kind and the id *)
(* of the call written over its own                                        *)
Spread(resource, resourceType, id) ==
    [resource EXCEPT !.resourceType = resourceType, !.id = id]

(* resource.subject?.reference?.split('/')[1] || 'unknown' *)
subjectId(subject) ==
    IF Len(subject) >= 2 /\ subject[2] # "" THEN subject[2] ELSE "unknown"

(* The item createResource and updateResource build around the stamped    *)
(* resource; tag is "CREATED" or "UPDATED".                                *)
dynamoItem(resourceType, resourceId, SK, resource, resourceWithMetadata, tag) ==
    [versionId |-> resourceWithMetadata.meta.versionId,
     lastUpdated |-> resourceWithMetadata.meta.lastUpdated,
     resourceType |-> resourceType,
     PK |-> buildPrimaryKey(resourceType, resourceId).PK,
     SK |-> SK,
     resourceId |-> resourceId,
     resource |-> resourceWithMetadata,
     GSI1PK |-> <<"RESOURCE_TYPE", resourceType>>,
     GSI1SK |-> <<tag, resourceWithMetadata.meta.lastUpdated>>,
     GSI2PK |-> <<"PATIENT", IF resourceType = "Patient" THEN resourceId
                             ELSE subjectId(resource.subject)>>,
     GSI2SK |-> <<"RESOURCE", resourceType, resourceId>>,
     deleted |-> FALSE]

----------------------------------------------------------------------------
(* The backend: DynamoDB requests on the table, each atomic *)

HasItem(t, PK, SK) == \E i \in t : i.PK = PK /\ i.SK = SK

(* GetCommand: result.Item, NoItem when there is none *)
GetCommand(t, PK, SK) ==
    IF HasItem(t, PK, SK) THEN CHOOSE i \in t : i.PK = PK /\ i.SK = SK ELSE NoItem

(* PutCommand: replaces the whole item under the item's key *)
PutCommand(t, item) ==
    {i \in t : ~(i.PK = item.PK /\ i.SK = item.SK)} \cup {item}

(* Mutant: the put is not conditional *)
ConditionIgnored(t, item) == TRUE

(* ConditionExpression attribute_not_exists(PK), evaluated on the item     *)
(* stored under the new item's key                                         *)
ConditionHolds(t, item) == ~HasItem(t, item.PK, item.SK)

(* UpdateCommand with SET #resource, #lastUpdated, #versionId: changes the *)
(* three attributes of the item under the key, creating it when absent     *)
(* Mutant: the update of the current row is lost *)
UpdateCommandLost(t, PK, SK, resource, lastUpdated, versionId) == t

UpdateCommand(t, PK, SK, resource, lastUpdated, versionId) ==
    LET old == IF HasItem(t, PK, SK) THEN GetCommand(t, PK, SK)
               ELSE [NoItem EXCEPT !.PK = PK, !.SK = SK]
    IN  PutCommand(t, [old EXCEPT !.resource = resource,
                                  !.lastUpdated = lastUpdated,
                                  !.versionId = versionId])

----------------------------------------------------------------------------
(* Callers *)

(* The query string of a search; _lastUpdated is the timestamp asked for, *)
(* 0 when the parameter is absent                                          *)
NoParams == [subject |-> <<>>, _count |-> <<>>, _lastUpdated |-> 0,
             includeDeleted |-> FALSE]

NoCall == [id |-> "", resourceType |-> "", resource |-> NoResource, op |-> "none",
           searchParams |-> NoParams]

NoLoc == [dynamoItem |-> NoItem, resourceWithMetadata |-> NoResource,
          existingResource |-> NoItem]

NoRet == [resource |-> NoResource, op |-> "none", status |-> "none",
          statusCode |-> 0, entry |-> <<>>, total |-> 0]

Returned(op, resource) ==
    [resource |-> resource, op |-> op, status |-> "ok", statusCode |-> 0,
     entry |-> <<>>, total |-> 0]

Thrown(op, message, statusCode) ==
    [resource |-> NoResource, op |-> op, status |-> message,
     statusCode |-> statusCode, entry |-> <<>>, total |-> 0]

(* The error a failed backend request rejects with: an SDK exception, which *)
(* carries no statusCode property                                          *)
BackendError(op) == Thrown(op, "backend", 0)

(* Mutant: the error lacks the status *)
NotFoundUnmarked(op) == Thrown(op, "not found", 0)

(* The error thrown when the lookup finds no item: statusCode 404 *)
NotFound(op) == Thrown(op, "not found", 404)

(* Mutant: the handler reports every error as not found *)
CatchMasking(op, error, message) == Thrown(op, "not found", 404)

(* The catch clauses of getResource, updateResource and deleteResource:    *)
(* an error with statusCode 404 is rethrown as it is, any other is         *)
(* replaced by `message`                                                    *)
Catch(op, error, message) ==
    IF error.statusCode = 404 THEN error ELSE Thrown(op, message, 0)

(* The messages of the errors the store throws *)
ErrUnsupported == "Unsupported resource type"
ErrInvalid == "Invalid resource: must be an object"
ErrMismatch == "Resource type mismatch"
ErrInvalidId == "Invalid resource ID"
ErrNotFound == "not found"
ErrExists == "already exists"
ErrCreate == "Failed to create resource"
ErrRetrieve == "Failed to retrieve resource"
ErrUpdate == "Failed to update resource"
ErrDelete == "Failed to delete resource"
ErrSearch == "Failed to search resources"

(* History variables *)
Identities == Kinds \X (Ids \cup UUIDs)

NoObs == [callId |-> 0, v0 |-> 0, interfered |-> FALSE, overlap |-> {},
          served |-> TRUE]

NoHist == [createdBy |-> 0, tombstoned |-> FALSE, lastOp |-> "none",
           lastClean |-> FALSE, lastV0 |-> 0, lastRes |-> NoResource]

Ident(c) == <<c.resourceType, c.id>>

InFlightOn(q, identity) == pc[q] # "idle" /\ Ident(call[q]) = identity

(* obs after caller p has written to the identity: every other call in    *)
(* flight on it has had a concurrent writer                                *)
Interfere(o, p, identity) ==
    [q \in Procs |->
        IF q # p /\ InFlightOn(q, identity)
        THEN [o[q] EXCEPT !.interfered = TRUE] ELSE o[q]]

(* hist after call of p has written `resource` to the identity's current row *)
Wrote(p, identity, op, resource) ==
    [hist EXCEPT ![identity] =
        [createdBy |-> IF op = "create" THEN obs[p].callId ELSE @.createdBy,
         tombstoned |-> @.tombstoned \/ op = "delete",
         lastOp |-> op,
         lastClean |-> ~obs[p].interfered,
         lastV0 |-> obs[p].v0,
         lastRes |-> resource]]

CurrentItem(t, identity) ==
    GetCommand(t, buildPrimaryKey(identity[1], identity[2]).PK,
                  buildPrimaryKey(identity[1], identity[2]).SK)

Exists(t, identity) == CurrentItem(t, identity) # NoItem

(* History: the version the identity's current row carries, 0 when absent *)
CurrentVersion(t, identity) ==
    LET rows == {i \in t : i.resourceType = identity[1] /\ i.resourceId = identity[2]
                              /\ i.SK = <<"v", <<1>>>>}
    IN  IF rows = {} THEN 0 ELSE parseInt((CHOOSE i \in rows : TRUE).versionId)

UsedIds == {i.resourceId : i \in table}
               \cup {call[q].id : q \in {r \in Procs : pc[r] # "idle"}}

(* uuidv4(): an identifier nobody holds *)
generateResourceId == UUIDs \ UsedIds

Init ==
    /\ table = {}
    /\ now = 1
    /\ pc = [p \in Procs |-> "idle"]
    /\ call = [p \in Procs |-> NoCall]
    /\ loc = [p \in Procs |-> NoLoc]
    /\ ret = [p \in Procs |-> NoRet]
    /\ ncalls = 0
    /\ obs = [p \in Procs |-> NoObs]
    /\ hist = [x \in Identities |-> NoHist]

Tick ==
    /\ now < MaxTime
    /\ now' = now + 1
    /\ UNCHANGED <<table, pc, call, loc, ret, ncalls, obs, hist>>

(* A call starts: counted, and its history record reset *)
Begin(p) ==
    /\ pc[p] = "idle"
    /\ ncalls < MaxCalls
    /\ ncalls' = ncalls + 1

(* The call of p ends with r in the step that started it *)
Finish(p, c, r) ==
    /\ call' = [call EXCEPT ![p] = c]
    /\ ret' = [ret EXCEPT ![p] = r]
    /\ loc' = [loc EXCEPT ![p] = NoLoc]
    /\ obs' = [obs EXCEPT ![p] = [NoObs EXCEPT !.callId = ncalls + 1]]
    /\ UNCHANGED <<table, now, pc, hist>>

(* The call of p ends with r in the step that started it, on a backend    *)
(* request that failed                                                     *)
Fail(p, c, r) ==
    /\ call' = [call EXCEPT ![p] = c]
    /\ ret' = [ret EXCEPT ![p] = r]
    /\ loc' = [loc EXCEPT ![p] = NoLoc]
    /\ obs' = [obs EXCEPT ![p] = [NoObs EXCEPT !.callId = ncalls + 1,
                                               !.served = FALSE]]
    /\ UNCHANGED <<table, now, pc, hist>>

(* createResource up to the await of the conditional put (lines 91-141) *)
CreateResource(p, resourceType, resource) ==
    /\ Begin(p)
    /\ LET c == [NoCall EXCEPT !.op = "create", !.resourceType = resourceType,
                               !.resource = resource]
       IN
       IF ~validateResourceType(resourceType)
       THEN Finish(p, c, Thrown("create", ErrUnsupported, 0))
       ELSE IF ~resource.isObject
       THEN Finish(p, c, Thrown("create", ErrInvalid, 0))
       ELSE IF resource.resourceType # "" /\ resource.resourceType # resourceType
       THEN Finish(p, c, Thrown("create", ErrMismatch, 0))
       ELSE \E resourceId \in (IF resource.id # "" THEN {resource.id}
                               ELSE generateResourceId) :
            LET resourceWithMetadata ==
                    addMetadata(Spread(resource, resourceType, resourceId), FALSE, <<>>)
                key == buildPrimaryKey(resourceType, resourceId)
                item == dynamoItem(resourceType, resourceId, key.SK, resource,
                                   resourceWithMetadata, "CREATED")
                racing == {q \in Procs : q # p /\ call[q].op = "create"
                                /\ InFlightOn(q, <<resourceType, resourceId>>)}
            IN
            /\ call' = [call EXCEPT ![p] = [c EXCEPT !.id = resourceId]]
            /\ loc' = [loc EXCEPT ![p] =
                          [NoLoc EXCEPT !.resourceWithMetadata = resourceWithMetadata,
                                        !.dynamoItem = item]]
            /\ pc' = [pc EXCEPT ![p] = "create_put"]
            /\ ret' = [ret EXCEPT ![p] = NoRet]
            /\ obs' = [q \in Procs |->
                          IF q = p THEN [NoObs EXCEPT !.callId = ncalls + 1,
                                                      !.overlap = racing]
                          ELSE IF q \in racing
                          THEN [obs[q] EXCEPT !.overlap = @ \cup {p}]
                          ELSE obs[q]]
            /\ UNCHANGED <<table, now, hist>>

(* The conditional put of createResource and what follows it (lines 136-160) *)
CreatePut(p, up) ==
    /\ pc[p] = "create_put"
    /\ pc' = [pc EXCEPT ![p] = "idle"]
    /\ LET item == loc[p].dynamoItem
           identity == Ident(call[p])
       IN
       IF ~up
       THEN /\ ret' = [ret EXCEPT ![p] = Thrown("create", ErrCreate, 0)]
            /\ obs' = [obs EXCEPT ![p].served = FALSE]
            /\ UNCHANGED <<table, hist>>
       ELSE IF ~ConditionHolds(table, item)
       THEN /\ ret' = [ret EXCEPT ![p] = Thrown("create", ErrExists, 0)]
            /\ UNCHANGED <<table, obs, hist>>
       ELSE /\ table' = PutCommand(table, item)
            /\ ret' = [ret EXCEPT ![p] = Returned("create", loc[p].resourceWithMetadata)]
            /\ obs' = Interfere(obs, p, identity)
            /\ hist' = Wrote(p, identity, "create", loc[p].resourceWithMetadata)
    /\ UNCHANGED <<now, call, loc, ncalls>>

(* getResource (lines 166-216) *)
GetResource(p, resourceType, id, up) ==
    /\ Begin(p)
    /\ LET c == [NoCall EXCEPT !.op = "get", !.resourceType = resourceType, !.id = id]
           key == buildPrimaryKey(resourceType, id)
           Item == GetCommand(table, key.PK, key.SK)
       IN
       IF ~validateResourceType(resourceType)
       THEN Finish(p, c, Thrown("get", ErrUnsupported, 0))
       ELSE IF id = ""
       THEN Finish(p, c, Thrown("get", ErrInvalidId, 0))
       ELSE IF ~up
       THEN Fail(p, c, Catch("get", BackendError("get"), ErrRetrieve))
       ELSE IF Item = NoItem
       THEN Finish(p, c, Catch("get", NotFound("get"), ErrRetrieve))
       ELSE Finish(p, c, Returned("get", Item.resource))

(* updateResource up to the await of the history put (lines 221-301): the *)
(* validation, the lookup of the current row and the stamping             *)
UpdateResource(p, resourceType, id, resource, up) ==
    /\ Begin(p)
    /\ LET c == [NoCall EXCEPT !.op = "update", !.resourceType = resourceType,
                               !.id = id, !.resource = resource]
           key == buildPrimaryKey(resourceType, id)
           existingResource == GetCommand(table, key.PK, key.SK)
           resourceWithMetadata ==
               addMetadata(Spread(resource, resourceType, id),
                           TRUE, existingResource.versionId)
           updatedSK == <<"v", resourceWithMetadata.meta.versionId>>
           item == dynamoItem(resourceType, id, updatedSK, resource,
                              resourceWithMetadata, "UPDATED")
       IN
       IF ~validateResourceType(resourceType)
       THEN Finish(p, c, Thrown("update", ErrUnsupported, 0))
       ELSE IF id = ""
       THEN Finish(p, c, Thrown("update", ErrInvalidId, 0))
       ELSE IF ~resource.isObject
       THEN Finish(p, c, Thrown("update", ErrInvalid, 0))
       ELSE IF resource.resourceType # "" /\ resource.resourceType # resourceType
       THEN Finish(p, c, Thrown("update", ErrMismatch, 0))
       ELSE IF ~up
       THEN Fail(p, c, Catch("update", BackendError("update"), ErrUpdate))
       ELSE IF existingResource = NoItem
       THEN Finish(p, c, Catch("update", NotFound("update"), ErrUpdate))
       ELSE /\ call' = [call EXCEPT ![p] = c]
            /\ loc' = [loc EXCEPT ![p] =
                          [dynamoItem |-> item,
                           resourceWithMetadata |-> resourceWithMetadata,
                           existingResource |-> existingResource]]
            /\ pc' = [pc EXCEPT ![p] = "update_put"]
            /\ ret' = [ret EXCEPT ![p] = NoRet]
            /\ obs' = [obs EXCEPT ![p] =
                          [NoObs EXCEPT !.callId = ncalls + 1,
                                        !.v0 = CurrentVersion(table, <<resourceType, id>>)]]
            /\ UNCHANGED <<table, now, hist>>

(* Mutant: the rejection of the put is swallowed and the call goes on *)
PutRejectedSwallowed == "update_ptr"

(* Where the call is after the put of the try block (lines 296-336) has   *)
(* rejected: out of the block, in the catch clause that throws             *)
PutRejected == "idle"

(* The put of the new version's row (lines 296-301) *)
UpdatePut(p, up) ==
    /\ pc[p] = "update_put"
    /\ IF ~up
       THEN /\ pc' = [pc EXCEPT ![p] = PutRejected]
            /\ ret' = [ret EXCEPT ![p] = Thrown("update", ErrUpdate, 0)]
            /\ obs' = [obs EXCEPT ![p].served = FALSE]
            /\ UNCHANGED table
       ELSE /\ table' = PutCommand(table, loc[p].dynamoItem)
            /\ pc' = [pc EXCEPT ![p] = "update_ptr"]
            /\ obs' = Interfere(obs, p, Ident(call[p]))
            /\ UNCHANGED ret
    /\ UNCHANGED <<now, call, loc, ncalls, hist>>

(* The update of the current row and the return (lines 303-336) *)
UpdatePointer(p, up) ==
    /\ pc[p] = "update_ptr"
    /\ pc' = [pc EXCEPT ![p] = "idle"]
    /\ LET r == loc[p].resourceWithMetadata
           key == buildPrimaryKey(call[p].resourceType, call[p].id)
       IN
       IF ~up
       THEN /\ ret' = [ret EXCEPT ![p] = Thrown("update", ErrUpdate, 0)]
            /\ obs' = [obs EXCEPT ![p].served = FALSE]
            /\ UNCHANGED <<table, hist>>
       ELSE /\ table' = UpdateCommand(table, key.PK, <<"v", <<1>>>>, r,
                                      r.meta.lastUpdated, r.meta.versionId)
            /\ ret' = [ret EXCEPT ![p] = Returned("update", r)]
            /\ obs' = Interfere(obs, p, Ident(call[p]))
            /\ hist' = Wrote(p, Ident(call[p]), "update", r)
    /\ UNCHANGED <<now, call, loc, ncalls>>

(* Mutant: the copy is restamped but not marked *)
deletedResourceUnmarked(Item) ==
    [Item.resource EXCEPT
         !.meta = [versionId |-> String(parseInt(Item.versionId) + 1),
                   lastUpdated |-> getCurrentTimestamp]]

(* The tombstoned copy deleteResource builds of the resource it read *)
deletedResource(Item) ==
    [Item.resource EXCEPT
         !.meta = [versionId |-> String(parseInt(Item.versionId) + 1),
                   lastUpdated |-> getCurrentTimestamp],
         !._deleted = TRUE]

(* Mutant: an item already tombstoned is put back as it was read *)
deletedItemOnce(Item) ==
    IF Item.deleted
    THEN Item
    ELSE [Item EXCEPT !.resource = deletedResource(Item),
                      !.lastUpdated = deletedResource(Item).meta.lastUpdated,
                      !.versionId = deletedResource(Item).meta.versionId,
                      !.deleted = TRUE]

(* The item deleteResource puts back: the item it read, tombstoned *)
deletedItem(Item) ==
    [Item EXCEPT !.resource = deletedResource(Item),
                 !.lastUpdated = deletedResource(Item).meta.lastUpdated,
                 !.versionId = deletedResource(Item).meta.versionId,
                 !.deleted = TRUE]

(* Mutant: the row is removed (a DeleteCommand on the key of the item) *)
DeleteCommand(t, item) == {i \in t : ~(i.PK = item.PK /\ i.SK = item.SK)}

(* Step 4 of deleteResource, "mark as deleted": the tombstoned item is put *)
(* over the current row (lines 390-394)                                    *)
MarkDeleted(t, item) == PutCommand(t, item)

(* deleteResource up to the await of the put (lines 342-394) *)
DeleteResource(p, resourceType, id, up) ==
    /\ Begin(p)
    /\ LET c == [NoCall EXCEPT !.op = "delete", !.resourceType = resourceType,
                               !.id = id]
           key == buildPrimaryKey(resourceType, id)
           Item == GetCommand(table, key.PK, key.SK)
       IN
       IF ~validateResourceType(resourceType)
       THEN Finish(p, c, Thrown("delete", ErrUnsupported, 0))
       ELSE IF id = ""
       THEN Finish(p, c, Thrown("delete", ErrInvalidId, 0))
       ELSE IF ~up
       THEN Fail(p, c, Catch("delete", BackendError("delete"), ErrDelete))
       ELSE IF Item = NoItem
       THEN Finish(p, c, Catch("delete", NotFound("delete"), ErrDelete))
       ELSE /\ call' = [call EXCEPT ![p] = c]
            /\ loc' = [loc EXCEPT ![p] =
                          [dynamoItem |-> deletedItem(Item),
                           resourceWithMetadata |-> deletedResource(Item),
                           existingResource |-> Item]]
            /\ pc' = [pc EXCEPT ![p] = "delete_put"]
            /\ ret' = [ret EXCEPT ![p] = NoRet]
            /\ obs' = [obs EXCEPT ![p] =
                          [NoObs EXCEPT !.callId = ncalls + 1,
                                        !.v0 = CurrentVersion(table, <<resourceType, id>>)]]
            /\ UNCHANGED <<table, now, hist>>

(* The put of the tombstoned item and the return (lines 390-413) *)
DeletePut(p, up) ==
    /\ pc[p] = "delete_put"
    /\ pc' = [pc EXCEPT ![p] = "idle"]
    /\ IF ~up
       THEN /\ ret' = [ret EXCEPT ![p] = Catch("delete", BackendError("delete"), ErrDelete)]
            /\ obs' = [obs EXCEPT ![p].served = FALSE]
            /\ UNCHANGED <<table, hist>>
       ELSE /\ table' = MarkDeleted(table, loc[p].dynamoItem)
            /\ ret' = [ret EXCEPT ![p] = Returned("delete", NoResource)]
            /\ obs' = Interfere(obs, p, Ident(call[p]))
            /\ hist' = Wrote(p, Ident(call[p]), "delete", loc[p].resourceWithMetadata)
    /\ UNCHANGED <<now, call, loc, ncalls>>

----------------------------------------------------------------------------
(* QueryCommand *)

(* The order of the strings the keys are built from (byte order) *)
Alphabet ==
    <<"CREATED", "Condition", "DocumentReference", "Encounter", "Observation",
      "PATIENT", "Patient", "Practitioner", "RESOURCE", "RESOURCE_TYPE", "UPDATED",
      "a", "b", "u1", "unknown">>

Rank(x) == CHOOSE k \in 1..Len(Alphabet) : Alphabet[k] = x

StringLess(a, b) == Rank(a) < Rank(b)

(* a < b for two sort keys of an index, compared as the strings they stand *)
(* for: GSI1SK is `<tag>#<timestamp>`, GSI2SK is `RESOURCE#<type>#<id>`    *)
KeyLess(a, b, IndexName) ==
    IF IndexName = "GSI2"
    THEN \/ StringLess(a[2], b[2])
         \/ a[2] = b[2] /\ StringLess(a[3], b[3])
    ELSE \/ StringLess(a[1], b[1])
         \/ a[1] = b[1] /\ a[2] < b[2]

SortKey(i, IndexName) == IF IndexName = "GSI2" THEN i.GSI2SK ELSE i.GSI1SK

RECURSIVE Descending(_, _)
Descending(items, IndexName) ==
    IF items = {} THEN {<<>>}
    ELSE UNION {{<<i>> \o rest : rest \in Descending(items \ {i}, IndexName)} :
                 i \in {j \in items : \A k \in items :
                            ~KeyLess(SortKey(j, IndexName), SortKey(k, IndexName),
                                     IndexName)}}

Prefix(seq, n) == SubSeq(seq, 1, IF n < Len(seq) THEN n ELSE Len(seq))

(* searchParams.subject.replace('Patient/', ''), as segments *)
patientId(subject) ==
    IF Len(subject) >= 2 /\ subject[1] = "Patient" THEN Tail(subject) ELSE subject

(* The items of the index named by queryParams that satisfy its key condition. *)
(* An item is in an index when it carries the index's key attributes.          *)
KeyCondition(t, queryParams) ==
    IF queryParams.IndexName = "GSI2"
    THEN {i \in t : i.GSI2PK # <<>> /\ i.GSI2PK[1] = "PATIENT"
                      /\ <<i.GSI2PK[2]>> = queryParams.patientKey}
    ELSE {i \in t : /\ i.GSI1PK = queryParams.resourceTypeKey
                    /\ queryParams.lastUpdatedPrefix # ""
                          => i.GSI1SK[1] = queryParams.lastUpdatedPrefix}

(* Mutant: the filter keeps the tombstoned rows *)
FilterInverted(i) == i.deleted

(* FilterExpression 'attribute_not_exists(deleted) OR deleted = :deleted', *)
(* :deleted being false                                                     *)
FilterExpression(i) == ~i.deleted

(* QueryCommand: reads at most Limit items of the index in order, then    *)
(* drops those the filter rejects; the set of the possible result.Items    *)
QueryCommand(t, queryParams) ==
    {SelectSeq(Prefix(order, queryParams.Limit), FilterExpression) :
        order \in Descending(KeyCondition(t, queryParams), queryParams.IndexName)}

(* searchResources, steps 2-5: the query it sends (lines 427-457) *)
buildQueryParams(resourceType, searchParams) ==
    LET count == OrElse(parseInt(searchParams._count), 20)
        owner == searchParams.subject # <<>> /\ resourceType # "Patient"
    IN  [IndexName |-> IF owner THEN "GSI2" ELSE "GSI1",
         patientKey |-> IF owner THEN patientId(searchParams.subject) ELSE <<>>,
         resourceTypeKey |-> <<"RESOURCE_TYPE", resourceType>>,
         lastUpdatedPrefix |-> IF searchParams._lastUpdated # 0 THEN "CREATED" ELSE "",
         Limit |-> count,
         ExpressionAttributeValues |->
             {":resourceTypeKey", ":deleted"}
                 \cup (IF searchParams._lastUpdated # 0 THEN {":lastUpdatedPrefix"} ELSE {})
                 \cup (IF owner THEN {":patientKey"} ELSE {})]

(* The ExpressionAttributeValues no expression of the request refers to.  *)
(* The owner path replaces the key condition and keeps the values of the  *)
(* one it replaced.                                                        *)
UnusedValues(queryParams) ==
    queryParams.ExpressionAttributeValues
        \ ({":deleted"} \cup (IF queryParams.IndexName = "GSI2" THEN {":patientKey"}
                              ELSE {":resourceTypeKey"}
                                   \cup (IF queryParams.lastUpdatedPrefix # ""
                                         THEN {":lastUpdatedPrefix"} ELSE {})))

(* The bundle built from result.Items (lines 463-475) *)
bundle(resourceType, Items) ==
    [resource |-> NoResource, op |-> "search", status |-> "ok", statusCode |-> 0,
     entry |-> [k \in 1..Len(Items) |->
                   [resource |-> Items[k].resource,
                    fullUrl |-> <<resourceType, Items[k].resource.id>>]],
     total |-> Len(Items)]

(* searchResources (lines 419-493).  A request that carries unused        *)
(* ExpressionAttributeValues is one the backend may reject as invalid      *)
(* instead of evaluating: both answers are modelled.                       *)
SearchResources(p, resourceType, searchParams, up) ==
    /\ Begin(p)
    /\ LET c == [NoCall EXCEPT !.op = "search", !.resourceType = resourceType,
                               !.searchParams = searchParams]
       IN
       IF ~validateResourceType(resourceType)
       THEN Finish(p, c, Thrown("search", ErrUnsupported, 0))
       ELSE IF ~up
       THEN Fail(p, c, Thrown("search", ErrSearch, 0))
       ELSE \/ /\ UnusedValues(buildQueryParams(resourceType, searchParams)) # {}
               /\ Finish(p, c, Thrown("search", ErrSearch, 0))
            \/ \E Items \in QueryCommand(table,
                                         buildQueryParams(resourceType, searchParams)) :
                   Finish(p, c, bundle(resourceType, Items))

----------------------------------------------------------------------------
(* Inputs of the calls *)

(* One step of the callers P, their arguments drawn from the given sets:  *)
(* creates and updates hold <<resourceType, payload>>, ids the id          *)
(* arguments, searches <<resourceType, searchParams>>, and backend the     *)
(* answers of the backend to a request (TRUE: served, FALSE: failed).      *)
Step(P, kinds, creates, ids, updates, searches, backend) ==
    \/ \E p \in P, c \in creates : CreateResource(p, c[1], c[2])
    \/ \E p \in P, up \in backend : CreatePut(p, up)
    \/ \E p \in P, k \in kinds, id \in ids, up \in backend : GetResource(p, k, id, up)
    \/ \E p \in P, u \in updates, id \in ids, up \in backend :
           UpdateResource(p, u[1], id, u[2], up)
    \/ \E p \in P, up \in backend : UpdatePut(p, up)
    \/ \E p \in P, up \in backend : UpdatePointer(p, up)
    \/ \E p \in P, k \in kinds, id \in ids, up \in backend : DeleteResource(p, k, id, up)
    \/ \E p \in P, up \in backend : DeletePut(p, up)
    \/ \E p \in P, q \in searches, up \in backend : SearchResources(p, q[1], q[2], up)

(* Concurrent callers on one identity. No branch of the manager reads a
   timestamp back, so the interleavings are explored at one clock reading;
   the clock advances in SpecSeq. *)
Next ==
    Step(Procs, {"Patient"},
         {<<"Patient", Payload(TRUE, "", "a", "A", <<>>, FALSE)>>},
         {"a"},
         {<<"Patient", Payload(TRUE, "", "", "B", <<>>, FALSE)>>},
         {<<"Patient", NoParams>>},
         {TRUE})

Spec == Init /\ [][Next]_vars

(* One caller, with the variety of payloads, kinds and queries *)
NextSeq ==
    \/ Tick
    \/ Step({1}, {"Patient", "Observation"},
         {<<k, r>> : k \in {"Patient", "Observation"},
                     r \in {Payload(TRUE, "", "a", "A", <<>>, FALSE),
                            Payload(TRUE, "", "", "A", <<>>, FALSE),
                            Payload(TRUE, "", "a", "A", <<>>, TRUE)}},
         {"a", "u1"},
         {<<k, Payload(TRUE, "", "", "B", <<>>, FALSE)>> : k \in {"Patient", "Observation"}},
         {<<k, q>> : k \in {"Patient", "Observation"},
                     q \in {NoParams, [NoParams EXCEPT !._count = <<1>>],
                            [NoParams EXCEPT !.includeDeleted = TRUE]}},
         {TRUE})

SpecSeq == Init /\ [][NextSeq]_vars

(* One caller searching a kind with the page size and the time filter *)
NextQuery ==
    \/ Tick
    \/ Step({1}, {"Patient"},
            {<<"Patient", Payload(TRUE, "", id, "A", <<>>, FALSE)>> : id \in {"a", ""}},
            {"a", "u1"},
            {<<"Patient", Payload(TRUE, "", "", "B", <<>>, FALSE)>>},
            {<<"Patient", q>> : q \in {NoParams,
                                       [NoParams EXCEPT !._count = <<0>>],
                                       [NoParams EXCEPT !._count = <<1>>],
                                       [NoParams EXCEPT !._lastUpdated = 1]}},
            {TRUE})

SpecQuery == Init /\ [][NextQuery]_vars

(* One caller searching the resources of an owner *)
NextOwner ==
    \/ Tick
    \/ Step({1}, {"Observation"},
            {<<"Patient", Payload(TRUE, "", "a", "A", <<>>, FALSE)>>,
             <<"Observation", Payload(TRUE, "", "a", "A", <<"Patient", "a">>, FALSE)>>,
             <<"Observation", Payload(TRUE, "", "", "A", <<>>, FALSE)>>},
            {"a"},
            {<<"Observation", Payload(TRUE, "", "", "B", <<"Patient", "c">>, FALSE)>>},
            {<<"Observation", [NoParams EXCEPT !.subject = <<"Patient", "a">>]>>},
            {TRUE})

SpecOwner == Init /\ [][NextOwner]_vars

(* One caller with arguments the validation rejects, on a backend whose   *)
(* requests may fail                                                       *)
NextFault ==
    Step({1}, {"Patient", "Medication"},
         {<<"Patient", Payload(TRUE, "", "a", "A", <<>>, FALSE)>>,
          <<"Patient", Payload(TRUE, "Patient", "", "A", <<>>, FALSE)>>,
          <<"Patient", NotAnObject>>,
          <<"Patient", Payload(TRUE, "Observation", "a", "A", <<>>, FALSE)>>,
          <<"Medication", Payload(TRUE, "", "a", "A", <<>>, FALSE)>>},
         {"a", "u1", ""},
         {<<"Patient", Payload(TRUE, "", "", "B", <<>>, FALSE)>>,
          <<"Patient", NotAnObject>>},
         {<<"Patient", NoParams>>},
         {TRUE, FALSE})

SpecFault == Init /\ [][NextFault]_vars

(* Concurrent callers updating one identity with different bodies *)
NextUpdate ==
    \/ \E p \in Procs :
           CreateResource(p, "Patient", Payload(TRUE, "", "a", "A", <<>>, FALSE))
    \/ \E p \in Procs : CreatePut(p, TRUE)
    \/ \E p \in Procs : GetResource(p, "Patient", "a", TRUE)
    \/ \E p \in Procs, name \in {"B", "C"} :
           UpdateResource(p, "Patient", "a", Payload(TRUE, "", "", name, <<>>, FALSE), TRUE)
    \/ \E p \in Procs : UpdatePut(p, TRUE)
    \/ \E p \in Procs : UpdatePointer(p, TRUE)

SpecUpdate == Init /\ [][NextUpdate]_vars

(* Concurrent callers on one identity: the update payload of the first    *)
(* names another id and no kind, that of the others their kind and no id   *)
NextIdentity ==
    \/ \E p \in Procs :
           CreateResource(p, "Patient", Payload(TRUE, "", "a", "A", <<>>, FALSE))
    \/ \E p \in Procs : CreatePut(p, TRUE)
    \/ \E p \in Procs :
           UpdateResource(p, "Patient", "a",
                          IF p = 1 THEN Payload(TRUE, "", "b", "B", <<>>, FALSE)
                          ELSE Payload(TRUE, "Patient", "", "C", <<>>, FALSE), TRUE)
    \/ \E p \in Procs : UpdatePut(p, TRUE)
    \/ \E p \in Procs : UpdatePointer(p, TRUE)
    \/ \E p \in Procs : DeleteResource(p, "Patient", "a", TRUE)
    \/ \E p \in Procs : DeletePut(p, TRUE)

SpecIdentity == Init /\ [][NextIdentity]_vars

----------------------------------------------------------------------------
(* Properties *)

(* Caller p starts a call of `op` in this step and the call ends in it *)
Answered(p, op) ==
    /\ pc[p] = "idle" /\ pc'[p] = "idle"
    /\ ncalls' = ncalls + 1
    /\ obs'[p].callId = ncalls'
    /\ call'[p].op = op

(* The backend served the requests of the call ret records *)
Served(r) == r.status \notin {"none", ErrCreate, ErrRetrieve, ErrUpdate, ErrDelete,
                               ErrSearch}

Version(resource) == parseInt(resource.meta.versionId)

(* The last calls of p and q are creates of one identity that ran          *)
(* concurrently, and both have ended with an answer of the backend         *)
Raced(p, q) ==
    /\ p # q
    /\ call[p].op = "create" /\ call[q].op = "create"
    /\ pc[p] = "idle" /\ pc[q] = "idle"
    /\ Ident(call[p]) = Ident(call[q])
    /\ q \in obs[p].overlap /\ p \in obs[q].overlap
    /\ Served(ret[p]) /\ Served(ret[q])

(* C1, as stated: of any two concurrent creates of one (kind, id), exactly *)
(* one returns the stamped resource and the other fails with 'already      *)
(* exists'.                                                                *)
C1_ExactlyOneOfAnyTwo ==
    \A p, q \in Procs :
        Raced(p, q) =>
            \/ ret[p].status = "ok" /\ ret[q].status = ErrExists
            \/ ret[p].status = ErrExists /\ ret[q].status = "ok"

(* C1, amended: two concurrent creates of one (kind, id) never both        *)
(* succeed, and one that does not succeed fails with 'already exists';     *)
(* exactly one of the two succeeds when neither a completed nor a third    *)
(* concurrent call has created the identity, and otherwise both fail.      *)
C1_AtMostOneCreates ==
    \A p, q \in Procs :
        Raced(p, q) =>
            LET creator == hist[Ident(call[p])].createdBy
                won(r) == ret[r].status = "ok" /\ ret[r].resource = loc[r].resourceWithMetadata
                lost(r) == ret[r].status = ErrExists
            IN  /\ creator = obs[p].callId => won(p) /\ lost(q)
                /\ creator = obs[q].callId => won(q) /\ lost(p)
                /\ creator \notin {obs[p].callId, obs[q].callId} => lost(p) /\ lost(q)

C1_Witness ==
    \E p, q \in Procs :
        /\ Raced(p, q)
        /\ ret[p].status = "ok" /\ ret[q].status = ErrExists
        /\ Version(ret[p].resource) = 1

(* C2: a read that follows a successful create of the identity, no other   *)
(* write of the identity in between, returns version 1, not marked deleted. *)
C2_CreateThenRead ==
    [][\A p \in Procs :
          (Answered(p, "get") /\ Served(ret'[p])
              /\ call'[p].id # "" /\ Ident(call'[p]) \in Identities
              /\ hist[Ident(call'[p])].lastOp = "create")
          => /\ ret'[p].status = "ok"
             /\ ret'[p].resource.meta.versionId = <<1>>
             /\ ~ret'[p].resource._deleted]_vars

(* C3: a create of an identity that exists, at whatever version and        *)
(* tombstoned or not, fails with 'already exists' (the backend answering)  *)
(* and changes no row of the table.                                        *)
C3_CreateOfExisting ==
    [][\A p \in Procs :
          (pc[p] = "create_put" /\ pc'[p] = "idle" /\ Served(ret'[p])
              /\ CurrentVersion(table, Ident(call[p])) > 0)
          => ret'[p].status = ErrExists /\ table' = table]_vars

C3_Witness ==
    \E p \in Procs :
        /\ call[p].op = "create" /\ ret[p].status = ErrExists
        /\ CurrentVersion(table, Ident(call[p])) > 1
        /\ hist[Ident(call[p])].tombstoned

(* C4: an update that succeeds with no concurrent writer of the identity,  *)
(* the identity being at version v, returns version v + 1; and the read    *)
(* that follows it returns the same resource, at version v + 1.            *)
C4_UpdateThenRead ==
    [][\A p \in Procs :
          /\ (pc[p] = "update_ptr" /\ pc'[p] = "idle" /\ ret'[p].status = "ok"
                 /\ ~obs[p].interfered)
             => /\ obs[p].v0 = CurrentVersion(table, Ident(call[p]))
                /\ Version(ret'[p].resource) = obs[p].v0 + 1
          /\ (Answered(p, "get") /\ Served(ret'[p])
                 /\ call'[p].id # "" /\ Ident(call'[p]) \in Identities
                 /\ hist[Ident(call'[p])].lastOp = "update"
                 /\ hist[Ident(call'[p])].lastClean)
             => /\ ret'[p].status = "ok"
                /\ ret'[p].resource = hist[Ident(call'[p])].lastRes
                /\ Version(ret'[p].resource) = hist[Ident(call'[p])].lastV0 + 1]_vars

C4_Witness ==
    \E p \in Procs :
        /\ call[p].op = "get" /\ ret[p].status = "ok"
        /\ hist[Ident(call[p])].lastOp = "update"
        /\ hist[Ident(call[p])].lastClean
        /\ hist[Ident(call[p])].lastV0 = 2
        /\ ret[p].resource = hist[Ident(call[p])].lastRes
        /\ ret[p].resource.name = "B"
        /\ Version(ret[p].resource) = 3

(* C5: the version on the current row of an identity never decreases, in   *)
(* any step of any interleaving.                                           *)
C5_VersionNeverDecreases ==
    [][\A x \in Identities :
          CurrentVersion(table', x) >= CurrentVersion(table, x)]_vars

(* C6: a delete that succeeds on an identity it found not tombstoned at    *)
(* version v leaves the stored resource marked deleted at version v + 1,   *)
(* and the read that follows it succeeds and returns that tombstone.       *)
C6_DeleteThenRead ==
    [][\A p \in Procs :
          /\ (pc[p] = "delete_put" /\ pc'[p] = "idle" /\ ret'[p].status = "ok"
                 /\ ~loc[p].existingResource.deleted)
             => LET x == Ident(call[p])
                    row == CHOOSE i \in table' :
                               i.PK = <<"RESOURCE", x[1], x[2]>> /\ i.SK = <<"v", <<1>>>>
                IN  /\ row.deleted /\ row.resource._deleted
                    /\ Version(row.resource) = obs[p].v0 + 1
                    /\ parseInt(row.versionId) = obs[p].v0 + 1
                    /\ hist'[x].lastRes = row.resource
          /\ (Answered(p, "get") /\ Served(ret'[p])
                 /\ call'[p].id # "" /\ Ident(call'[p]) \in Identities
                 /\ hist[Ident(call'[p])].lastOp = "delete")
             => /\ ret'[p].status = "ok"
                /\ ret'[p].resource = hist[Ident(call'[p])].lastRes
                /\ ret'[p].resource._deleted
                /\ Version(ret'[p].resource) = hist[Ident(call'[p])].lastV0 + 1]_vars

C6_Witness ==
    \E p \in Procs :
        /\ call[p].op = "get" /\ ret[p].status = "ok"
        /\ hist[Ident(call[p])].lastOp = "delete"
        /\ hist[Ident(call[p])].lastV0 = 2
        /\ ret[p].resource._deleted
        /\ Version(ret[p].resource) = 3

(* C7: a default search of a kind returns no entry with the id of an       *)
(* identity of that kind whose last successful write is a delete.          *)
C7_SearchOmitsDeleted ==
    [][\A p \in Procs :
          (Answered(p, "search") /\ ret'[p].status = "ok"
              /\ ~call'[p].searchParams.includeDeleted)
          => \A k \in 1..Len(ret'[p].entry) :
                 hist[<<call'[p].resourceType, ret'[p].entry[k].resource.id>>].lastOp
                     # "delete"]_vars

(* C8: once a delete of an identity has succeeded, every read of it        *)
(* returns a resource marked deleted.                                      *)
C8_TombstonedIsTerminal ==
    [][\A p \in Procs :
          (Answered(p, "get") /\ ret'[p].status = "ok"
              /\ hist[Ident(call'[p])].tombstoned)
          => ret'[p].resource._deleted]_vars

(* C9: a search with includeDeleted = true returns every tombstoned        *)
(* identity of the kind at its tombstone version, and the same search      *)
(* without includeDeleted returns none of them.                            *)
C9_IncludeDeleted ==
    [][\A p \in Procs :
          (Answered(p, "search") /\ ret'[p].status = "ok"
              /\ call'[p].searchParams._count = <<>>
              /\ call'[p].searchParams.subject = <<>>
              /\ call'[p].searchParams._lastUpdated = 0)
          => \A x \in Identities :
                 (x[1] = call'[p].resourceType /\ hist[x].lastOp = "delete")
                 => LET found == {k \in 1..Len(ret'[p].entry) :
                                     ret'[p].entry[k].resource.id = x[2]}
                    IN  IF call'[p].searchParams.includeDeleted
                        THEN \E k \in found :
                                 /\ ret'[p].entry[k].resource._deleted
                                 /\ Version(ret'[p].entry[k].resource)
                                        = CurrentVersion(table, x)
                        ELSE found = {}]_vars

(* C10: the entries of every search result are ordered by the lastUpdated  *)
(* of the resource they return, most recent first.                         *)
C10_SearchOrdered ==
    \A p \in Procs :
        (ret[p].op = "search" /\ ret[p].status = "ok")
        => \A k \in 1..(Len(ret[p].entry) - 1) :
               ret[p].entry[k].resource.meta.lastUpdated
                   >= ret[p].entry[k + 1].resource.meta.lastUpdated

(* The page size a caller asks for: the number it supplies, 20 when it    *)
(* supplies none                                                           *)
limit(searchParams) ==
    IF searchParams._count = <<>> THEN 20 ELSE parseInt(searchParams._count)

(* C11: every search result holds at most limit entries, limit being the  *)
(* number the caller supplied and 20 when it supplied none.                *)
C11_AtMostLimit ==
    \A p \in Procs :
        (ret[p].op = "search" /\ ret[p].status = "ok")
        => Len(ret[p].entry) <= limit(call[p].searchParams)

(* C12: a search of a kind other than Patient with an owner filter        *)
(* returns only resources whose current owner reference is the owner       *)
(* asked for.                                                              *)
C12_OwnerOnly ==
    [][\A p \in Procs :
          (Answered(p, "search") /\ ret'[p].status = "ok"
              /\ call'[p].searchParams.subject # <<>>
              /\ call'[p].resourceType # "Patient")
          => \A k \in 1..Len(ret'[p].entry) :
                 LET r == ret'[p].entry[k].resource
                 IN  CurrentItem(table, <<r.resourceType, r.id>>).resource.subject
                         = call'[p].searchParams.subject]_vars

(* C13: versions are retained: a version of an identity that the store    *)
(* holds, with the body written at that version, is held with that body    *)
(* after every later step (some row of the identity carries it).           *)
C13_VersionsRetained ==
    [][\A i \in table :
          \E j \in table' :
              /\ j.PK = i.PK
              /\ j.versionId = i.versionId
              /\ j.resource = i.resource]_vars

(* The rows of the identity other than its current row that carry version n *)
HistoryRows(t, identity, n) ==
    {i \in t : /\ i.PK = buildPrimaryKey(identity[1], identity[2]).PK
               /\ i.SK # buildPrimaryKey(identity[1], identity[2]).SK
               /\ parseInt(i.versionId) = n}

(* The last calls of p and q are updates of one identity that both read    *)
(* version v of it and both succeeded                                      *)
BothUpdated(p, q, v) ==
    /\ p # q
    /\ call[p].op = "update" /\ call[q].op = "update"
    /\ Ident(call[p]) = Ident(call[q])
    /\ pc[p] = "idle" /\ pc[q] = "idle"
    /\ ret[p].status = "ok" /\ ret[q].status = "ok"
    /\ obs[p].v0 = v /\ obs[q].v0 = v

Started(p, op) ==
    /\ pc[p] = "idle"
    /\ ncalls' = ncalls + 1
    /\ obs'[p].callId = ncalls'
    /\ call'[p].op = op

(* The call of caller p ends in this step *)
Ended(p) ==
    /\ pc'[p] = "idle"
    /\ \/ pc[p] # "idle"
       \/ ncalls' = ncalls + 1 /\ obs'[p].callId = ncalls'

(* The table holds no row of the identity <<resourceType, id>> *)
NoRowOf(t, resourceType, id) ==
    ~\E i \in t : i.PK = buildPrimaryKey(resourceType, id).PK

(* The arguments of the call pass the validation of the operation *)
ValidArguments(c) ==
    /\ c.resourceType \in validTypes
    /\ c.id # ""
    /\ c.op = "update" =>
           /\ c.resource.isObject
           /\ c.resource.resourceType \in {"", c.resourceType}

(* C15: on an identity that has no row, a get, an update and a delete     *)
(* (valid arguments, the backend answering) each fail with the not-found   *)
(* error, status 404, write nothing, and the identity still has no row.    *)
C15_NotFound ==
    [][\A p \in Procs : \A op \in {"get", "update", "delete"} :
          (Started(p, op) /\ ValidArguments(call'[p]) /\ obs'[p].served
              /\ NoRowOf(table, call'[p].resourceType, call'[p].id))
          => /\ pc'[p] = "idle"
             /\ ret'[p].status = ErrNotFound
             /\ ret'[p].statusCode = 404
             /\ table' = table
             /\ NoRowOf(table', call'[p].resourceType, call'[p].id)]_vars

C15_Witness ==
    \E p \in Procs :
        /\ call[p].op = "update" /\ call[p].id = "a" /\ call[p].resource.name = "B"
        /\ ret[p].status = ErrNotFound /\ ret[p].statusCode = 404
        /\ NoRowOf(table, "Patient", "a")
        /\ ncalls > 1

(* C16: a get, an update or a delete that a failed backend request ends   *)
(* is not answered with the not-found error nor with status 404, but with  *)
(* the failure error of its operation; and the not-found error is the      *)
(* answer only of a call whose lookup was served and found no row.         *)
C16_OutageIsNotNotFound ==
    [][\A p \in Procs :
          (Ended(p) /\ call'[p].op \in {"get", "update", "delete"})
          => /\ ~obs'[p].served
                => /\ ret'[p].status # ErrNotFound
                   /\ ret'[p].statusCode # 404
                   /\ ret'[p].status
                          = (CASE call'[p].op = "get" -> ErrRetrieve
                               [] call'[p].op = "update" -> ErrUpdate
                               [] call'[p].op = "delete" -> ErrDelete)
             /\ (ret'[p].status = ErrNotFound \/ ret'[p].statusCode = 404)
                => /\ obs'[p].served
                   /\ ValidArguments(call'[p])
                   /\ NoRowOf(table, call'[p].resourceType, call'[p].id)]_vars

C16_Witness ==
    \E p \in Procs :
        /\ call[p].op = "update" /\ pc[p] = "idle" /\ ~obs[p].served
        /\ ret[p].status = ErrUpdate /\ ret[p].statusCode = 0
        /\ ~NoRowOf(table, call[p].resourceType, call[p].id)

(* C17: a create fails with the unsupported-type error when the kind is   *)
(* not a supported one, else with the invalid-resource error when the      *)
(* payload is absent or no object, else with the mismatch error when the   *)
(* payload names another kind; no request is sent to the backend and the   *)
(* table is unchanged.                                                     *)
C17_CreateRejects ==
    [][\A p \in Procs :
          Started(p, "create")
          => LET kind == call'[p].resourceType
                 payload == call'[p].resource
                 rejected(message) ==
                     /\ pc'[p] = "idle"
                     /\ ret'[p].status = message
                     /\ obs'[p].served
                     /\ table' = table
             IN  /\ kind \notin validTypes => rejected(ErrUnsupported)
                 /\ (kind \in validTypes /\ ~payload.isObject)
                        => rejected(ErrInvalid)
                 /\ (kind \in validTypes /\ payload.isObject
                        /\ payload.resourceType \notin {"", kind})
                        => rejected(ErrMismatch)]_vars

C17_Witness ==
    \E p \in Procs :
        /\ call[p].op = "create" /\ call[p].resourceType = "Patient"
        /\ call[p].resource.resourceType = "Observation"
        /\ ret[p].status = ErrMismatch
        /\ table # {}

(* C18: an identity, once created, is never absent again: no step of any *)
(* interleaving of create, update and delete calls removes its current     *)
(* row, and no read of it (the backend answering) fails with not found.    *)
C18_NeverAbsentAgain ==
    [][/\ \A x \in Identities : Exists(table, x) => Exists(table', x)
       /\ \A p \in Procs :
              (Answered(p, "get") /\ obs'[p].served
                  /\ Ident(call'[p]) \in Identities
                  /\ hist[Ident(call'[p])].createdBy # 0)
              => /\ ret'[p].status = "ok"
                 /\ ret'[p].resource.id = call'[p].id]_vars

C18_Witness ==
    \E p \in Procs :
        /\ call[p].op = "get" /\ ret[p].status = "ok"
        /\ hist[Ident(call[p])].tombstoned
        /\ hist[Ident(call[p])].lastOp = "update"
        /\ Version(ret[p].resource) >= 3

(* C19: a search with _lastUpdated = t returns only resources last        *)
(* updated later than t, and returns a resource updated later than t even  *)
(* when it was created at t or before.                                     *)
C19_UpdatedAfter ==
    [][\A p \in Procs :
          (Answered(p, "search") /\ ret'[p].status = "ok"
              /\ call'[p].searchParams._lastUpdated # 0
              /\ call'[p].searchParams._count = <<>>
              /\ call'[p].searchParams.subject = <<>>)
          => LET t == call'[p].searchParams._lastUpdated
                 ids == {ret'[p].entry[k].resource.id : k \in 1..Len(ret'[p].entry)}
             IN  /\ \A k \in 1..Len(ret'[p].entry) :
                        ret'[p].entry[k].resource.meta.lastUpdated > t
                 /\ \A x \in Identities :
                        (x[1] = call'[p].resourceType /\ Exists(table, x)
                            /\ ~CurrentItem(table, x).deleted
                            /\ CurrentItem(table, x).resource.meta.lastUpdated > t)
                        => x[2] \in ids]_vars

Queries ==
    {NoParams, [NoParams EXCEPT !._count = <<1>>], [NoParams EXCEPT !._count = <<2>>],
     [NoParams EXCEPT !._lastUpdated = 1],
     [NoParams EXCEPT !.subject = <<"Patient", "a">>, !._count = <<1>>]}

(* The total of the bundle a search builds when the index lists the rows   *)
(* in this order                                                           *)
TotalOf(order, resourceType, queryParams) ==
    bundle(resourceType,
           SelectSeq(Prefix(order, queryParams.Limit), FilterExpression)).total

C21_FullUrlOfEntry ==
    \A p \in Procs :
        (ret[p].op = "search" /\ ret[p].status = "ok")
        => \A k \in 1..Len(ret[p].entry) :
               ret[p].entry[k].fullUrl
                   = <<ret[p].entry[k].resource.resourceType, ret[p].entry[k].resource.id>>

(* C22: the identity is immutable: in every reachable state the resource *)
(* on the current row of an identity has the kind and the id of that       *)
(* identity, whatever id or kind the payload of an update carried.         *)
C22_IdentityImmutable ==
    \A x \in Identities :
        Exists(table, x)
        => /\ CurrentItem(table, x).resource.resourceType = x[1]
           /\ CurrentItem(table, x).resource.id = x[2]
           /\ CurrentItem(table, x).resourceType = x[1]
           /\ CurrentItem(table, x).resourceId = x[2]

C22_Witness ==
    \E p \in Procs :
        /\ call[p].op = "update" /\ ret[p].status = "ok"
        /\ call[p].id = "a" /\ call[p].resource.id = "b"
        /\ CurrentItem(table, <<"Patient", "a">>).resource.name = "B"
        /\ CurrentItem(table, <<"Patient", "a">>).resource.id = "a"
        /\ ~Exists(table, <<"Patient", "b">>)

(* C23: a delete that succeeds on an identity at version v is written as *)
(* an update is: a history row of version v + 1 holds the tombstoned body, *)
(* and the current row carries that same version and body.                 *)
C23_DeleteWritesHistory ==
    [][\A p \in Procs :
          (pc[p] = "delete_put" /\ pc'[p] = "idle" /\ ret'[p].status = "ok")
          => LET x == Ident(call[p])
                 v == parseInt(loc[p].existingResource.versionId)
             IN  /\ CurrentVersion(table', x) = v + 1
                 /\ CurrentItem(table', x).resource._deleted
                 /\ \E i \in HistoryRows(table', x, v + 1) :
                        i.resource = CurrentItem(table', x).resource]_vars

(* The backend requests a call still has to send, by where it is *)
Remaining(step) ==
    CASE step = "idle" -> 0
      [] step = "create_put" -> 1
      [] step = "update_put" -> 2
      [] step = "update_ptr" -> 1
      [] step = "delete_put" -> 1

(* The error of the operation for a failed backend request *)
FailureOf(op) ==
    CASE op = "create" -> ErrCreate
      [] op = "get" -> ErrRetrieve
      [] op = "update" -> ErrUpdate
      [] op = "delete" -> ErrDelete
      [] op = "search" -> ErrSearch

(* C24: every call ends after a bounded number of backend requests (at    *)
(* most three) and never retries: each step of a call sends one request    *)
(* and leaves fewer to send; the step whose request fails writes nothing,   *)
(* ends the call with the failure error of the operation, and no further   *)
(* request of that call follows (after a failed put of the version row of  *)
(* an update, no write of the current row).                                *)
C24_NoRetry ==
    [][\A p \in Procs :
          /\ ~obs[p].served => pc[p] = "idle"
          /\ pc'[p] # "idle" => Remaining(pc'[p]) <= 2
          /\ (pc[p] # "idle" /\ <<pc'[p], ret'[p], obs'[p]>> # <<pc[p], ret[p], obs[p]>>)
                 => /\ Remaining(pc'[p])
                           = IF obs'[p].served THEN Remaining(pc[p]) - 1 ELSE 0
                    /\ obs'[p].callId = obs[p].callId
          /\ (pc[p] = "idle" /\ <<pc'[p], ret'[p], obs'[p]>> # <<pc[p], ret[p], obs[p]>>)
                 => /\ ncalls' = ncalls + 1
                    /\ obs'[p].callId = ncalls'
          /\ (~obs'[p].served /\ obs'[p] # obs[p])
                 => /\ pc'[p] = "idle"
                    /\ table' = table
                    /\ ret'[p].status = FailureOf(call'[p].op)]_vars

C24_Witness ==
    \E p \in Procs :
        /\ call[p].op = "update" /\ pc[p] = "idle" /\ ~obs[p].served
        /\ ret[p].status = ErrUpdate
        /\ HistoryRows(table, Ident(call[p]), 2) = {}
        /\ CurrentVersion(table, Ident(call[p])) = 1
        /\ loc[p].dynamoItem.SK = <<"v", <<2>>>>

(* C25: once all the concurrent updates of an identity have returned (no *)
(* delete among the calls), the history row stored under the version of    *)
(* the current row holds the body of the current row.                      *)
C25_CurrentAgreesWithHistory ==
    \A x \in Identities :
        (/\ \A p \in Procs : pc[p] = "idle"
         /\ hist[x].lastOp = "update"
         /\ ~hist[x].tombstoned)
        => \E i \in HistoryRows(table, x, CurrentVersion(table, x)) :
               i.resource = CurrentItem(table, x).resource

(* C26: in a quiescent state, each resource of a search result is the    *)
(* resource a get of its kind and id returns (same version, same body):    *)
(* no superseded version is returned.                                      *)
C26_SearchReturnsCurrent ==
    [][\A p \in Procs :
          (Answered(p, "search") /\ ret'[p].status = "ok"
              /\ \A q \in Procs : pc[q] = "idle")
          => \A k \in 1..Len(ret'[p].entry) :
                 LET r == ret'[p].entry[k].resource
                     key == buildPrimaryKey(r.resourceType, r.id)
                 IN  GetCommand(table, key.PK, key.SK).resource = r]_vars

(* C27: a search result never holds two entries with the same id.       *)
C27_NoDuplicateIds ==
    \A p \in Procs :
        (ret[p].op = "search" /\ ret[p].status = "ok")
        => \A j, k \in 1..Len(ret[p].entry) :
               ret[p].entry[j].resource.id = ret[p].entry[k].resource.id => j = k

(* C28: every resource a search returns has the kind the search asked   *)
(* for, on the kind-wide path and on the owner path: an owner search of a  *)
(* kind returns neither the owner itself nor a resource of another kind.   *)
C28_RequestedKindOnly ==
    \A p \in Procs :
        (ret[p].op = "search" /\ ret[p].status = "ok")
        => \A k \in 1..Len(ret[p].entry) :
               ret[p].entry[k].resource.resourceType = call[p].resourceType

(* C29: when an update ends with an error (validation, not found, or a   *)
(* failed backend request at either write), a get of the identity and a    *)
(* default search of the kind return what they would have returned before  *)
(* the update.  Stated for the update that is the first call after the     *)
(* create of its identity, no other caller writing the identity meanwhile: *)
(* the table before it is then the table after it without the row the      *)
(* update has put.                                                         *)
C29_FailedUpdateChangesNothing ==
    [][\A p \in Procs :
          (Ended(p) /\ call'[p].op = "update" /\ ret'[p].status # "ok"
              /\ Ident(call'[p]) \in Identities
              /\ hist[Ident(call'[p])].createdBy # 0
              /\ obs'[p].callId = hist[Ident(call'[p])].createdBy + 1
              /\ ~obs'[p].interfered)
          => LET before == IF pc[p] = "update_ptr"
                           THEN table \ {loc[p].dynamoItem}
                           ELSE table
                 key == buildPrimaryKey(call'[p].resourceType, call'[p].id)
                 queryParams == buildQueryParams(call'[p].resourceType, NoParams)
             IN  /\ GetCommand(table', key.PK, key.SK) = GetCommand(before, key.PK, key.SK)
                 /\ QueryCommand(table', queryParams) = QueryCommand(before, queryParams)]_vars

(* C30: tombstones do not consume the page: when at least limit          *)
(* identities of a kind are not deleted, a kind-wide search of the kind    *)
(* with that limit returns exactly limit entries, however many tombstoned  *)
(* rows of the kind are more recent.                                       *)
C30_TombstonesOffThePage ==
    [][\A p \in Procs :
          (Answered(p, "search") /\ ret'[p].status = "ok"
              /\ call'[p].searchParams.subject = <<>>
              /\ call'[p].searchParams._lastUpdated = 0
              /\ limit(call'[p].searchParams) >= 1)
          => LET live == {x \in Identities :
                             /\ x[1] = call'[p].resourceType
                             /\ Exists(table, x)
                             /\ ~CurrentItem(table, x).deleted}
             IN  Cardinality(live) >= limit(call'[p].searchParams)
                 => Len(ret'[p].entry) = limit(call'[p].searchParams)]_vars

(* C31: deleteResource on an identity whose current row is already a       *)
(* tombstone at version k is not rejected: when the backend answers, the   *)
(* lookup finds the row and the call goes on to its put, and the put ends  *)
(* the call without an error (not found or any other), leaving the current *)
(* row marked deleted, its resource marked deleted, both at version k + 1. *)
C31_DeleteOfTombstone ==
    [][\A p \in Procs :
          /\ (Started(p, "delete") /\ obs'[p].served
                 /\ call'[p].id # "" /\ Ident(call'[p]) \in Identities
                 /\ Exists(table, Ident(call'[p]))
                 /\ CurrentItem(table, Ident(call'[p])).deleted)
             => /\ pc'[p] = "delete_put"
                /\ loc'[p].existingResource = CurrentItem(table, Ident(call'[p]))
                /\ obs'[p].v0 = parseInt(loc'[p].existingResource.versionId)
          /\ (pc[p] = "delete_put" /\ pc'[p] = "idle" /\ obs'[p].served
                 /\ loc[p].existingResource.deleted)
             => LET x == Ident(call[p])
                    k == parseInt(loc[p].existingResource.versionId)
                    row == CurrentItem(table', x)
                IN  /\ ret'[p].status = "ok"
                    /\ Exists(table', x)
                    /\ row.deleted /\ row.resource._deleted
                    /\ parseInt(row.versionId) = k + 1
                    /\ Version(row.resource) = k + 1
                    /\ CurrentVersion(table', x) = k + 1]_vars

C31_Witness ==
    \E p \in Procs :
        /\ pc[p] = "idle" /\ call[p].op = "delete" /\ ret[p].status = "ok"
        /\ loc[p].existingResource.deleted
        /\ parseInt(loc[p].existingResource.versionId) = 2
        /\ hist[Ident(call[p])].tombstoned
        /\ CurrentItem(table, Ident(call[p])).deleted
        /\ CurrentVersion(table, Ident(call[p])) = 3

====
